---- MODULE Spec2Model ----
(***************************************************************************)
(* Model of cloud_composer_el_script/ecommerce_extract_load_pipeline.py:   *)
(* the row sanitizer preprocess_csv, the fetch/clean/stage routine         *)
(* gdrive_to_gcs, and the DAG gdrive_to_bigquery_dag that chains one       *)
(* Stage task and one Load task per entry of TABLES_CONFIG.                *)
(*                                                                         *)
(* A text is a sequence of symbols.  The symbols ",", "\n", "\"", "." and  *)
(* the digits are single characters; any other symbol stands for a run of  *)
(* ordinary characters (a letter, a column name).                          *)
(*                                                                         *)
(* The registry's f-strings (lines 127..265) read the name project_id,     *)
(* which the module never binds (line 23 binds PROJECT_ID).  The model     *)
(* reads project_id as PROJECT_ID, the evident intent; evaluated as        *)
(* written the module raises NameError when it is imported.                *)
(***************************************************************************)
EXTENDS Integers, Sequences, FiniteSets, TLC

VARIABLES
    raw,        \* SpecCsv: the bytes handed to preprocess_csv
    cleaned,    \* SpecCsv: preprocess_csv(raw)
    recleaned,  \* SpecCsv: preprocess_csv applied to its own output
    cpc,        \* SpecCsv: position ("start", "once", "twice")
    env,        \* the three values os.getenv returned when the module was loaded
    drive,      \* Drive folder: file name -> ids of the non-trashed files of that name
    gcs,        \* the bucket: blob path -> object
    bq,         \* the warehouse: destination table -> table
    run,        \* number of DAG runs started
    ti,         \* task -> state of its task instance in the current run
    try_number, \* task -> attempts started in the current run
    last,       \* what the last finished attempt found and did
    writer,     \* history: blob path -> the table whose Stage task wrote it in this run
    stagedFrom, \* history: blob path -> id of the Drive file the object was made from
    loadedFrom, \* history: destination table -> id of the Drive file its rows come from
    repeat      \* history: the run before this one succeeded in full, on this folder

csvVars == <<raw, cleaned, recleaned, cpc>>

dagVars == <<env, drive, gcs, bq, run, ti, try_number, last, writer, stagedFrom,
             loadedFrom, repeat>>

vars == <<csvVars, dagVars>>

(***************************************************************************)
(* Sequence helpers                                                        *)
(***************************************************************************)
\* The parts of s between its separators (one more than there are separators).
Split(s, sep) ==
    LET at     == {i \in 1..Len(s) : s[i] = sep}
        n      == Cardinality(at)
        pos(k) == IF k = 0 THEN 0
                  ELSE IF k = n + 1 THEN Len(s) + 1
                  ELSE CHOOSE i \in at : Cardinality({j \in at : j < i}) = k - 1
    IN [k \in 1..(n + 1) |-> SubSeq(s, pos(k - 1) + 1, pos(k) - 1)]

RECURSIVE Join(_, _)
Join(parts, sep) ==
    IF parts = <<>> THEN <<>>
    ELSE IF Len(parts) = 1 THEN parts[1]
    ELSE parts[1] \o <<sep>> \o Join(Tail(parts), sep)

RECURSIVE Flatten(_)
Flatten(ss) == IF ss = <<>> THEN <<>> ELSE Head(ss) \o Flatten(Tail(ss))

Digits == {"0", "1", "2", "3", "4", "5", "6", "7", "8", "9"}

(***************************************************************************)
(* pd.read_csv(file_obj, on_bad_lines='skip', quoting=3), line 114.        *)
(* QUOTE_NONE: a quote character is an ordinary character of its field.    *)
(***************************************************************************)
\* The line that holds the column names (header=0, the default).
header_end == 0

\* Lines of the text; blank lines are skipped (skip_blank_lines, the default),
\* and so is the empty tail after the last line terminator.
Lines(text) == SelectSeq(Split(text, "\n"), LAMBDA l : l # <<>>)

Fields(line) == Split(line, ",")

Pad(fields, n) ==
    fields \o [i \in 1..(IF n > Len(fields) THEN n - Len(fields) ELSE 0) |-> <<>>]

\* The tokenizer's end of line: from the second data line on, a line with
\* more fields than the line stored before it is a bad line and is skipped;
\* a line with fewer fields is never bad: it is padded with empty fields.
end_line(stored, fields) ==
    IF stored = <<>> THEN <<fields>>
    ELSE LET ex_fields == Len(stored[Len(stored)]) IN
         IF Len(stored) > header_end + 1 /\ Len(fields) > ex_fields
         THEN stored
         ELSE Append(stored, Pad(fields, ex_fields))

RECURSIVE Tokenize(_, _)
Tokenize(lines, stored) ==
    IF lines = <<>> THEN stored
    ELSE Tokenize(Tail(lines), end_line(stored, Fields(Head(lines))))

\* Values read as missing (na_values): of the defaults, the empty field.
IsNA(f) == f = <<>>

IsInt(f) == f # <<>> /\ \A i \in 1..Len(f) : f[i] \in Digits

IsFloat(f) ==
    \E p \in 2..(Len(f) - 1) :
        /\ f[p] = "."
        /\ \A i \in (1..Len(f)) \ {p} : f[i] \in Digits

\* The dtype read_csv infers for a column: int64 when every value is an
\* integer, float64 when every value is a number or missing, else object.
ColumnDtype(col) ==
    IF \A i \in 1..Len(col) : IsInt(col[i]) THEN "int64"
    ELSE IF \A i \in 1..Len(col) : IsNA(col[i]) \/ IsInt(col[i]) \/ IsFloat(col[i])
         THEN "float64"
         ELSE "object"

\* A frame: column names, and the rows of the data columns.  When the first
\* data line has more fields than there are names, the leading fields are an
\* implicit index (leading_cols), which is not a data column.
ReadCsv(text) ==
    LET stored       == Tokenize(Lines(text), <<>>)
        names        == stored[1]
        table_width  == IF Len(stored) > 1 THEN Len(stored[2]) ELSE Len(names)
        leading_cols == table_width - Len(names)
        rows  == [r \in 1..(Len(stored) - 1) |->
                    [c \in 1..Len(names) |-> stored[r + 1][leading_cols + c]]]
    IN [names |-> names, rows |-> rows]

\* EmptyDataError ("No columns to parse from file").
NoColumns(text) == Lines(text) = <<>>

(***************************************************************************)
(* df.to_csv(index=False), line 117.                                       *)
(***************************************************************************)
RECURSIVE StripLeadingZeros(_)
StripLeadingZeros(f) ==
    IF Len(f) > 1 /\ Head(f) = "0" THEN StripLeadingZeros(Tail(f)) ELSE f

RECURSIVE StripTrailingZeros(_)
StripTrailingZeros(f) ==
    IF Len(f) > 1 /\ f[Len(f)] = "0"
    THEN StripTrailingZeros(SubSeq(f, 1, Len(f) - 1)) ELSE f

PointAt(f) == CHOOSE p \in 1..Len(f) : f[p] = "."

\* repr of the float a numeric field was read as.
FloatRepr(f) ==
    IF IsInt(f) THEN StripLeadingZeros(f) \o <<".", "0">>
    ELSE StripLeadingZeros(SubSeq(f, 1, PointAt(f) - 1)) \o <<".">>
         \o StripTrailingZeros(SubSeq(f, PointAt(f) + 1, Len(f)))

\* The writer's quoting (QUOTE_MINIMAL, the default): a string holding the
\* quote character is wrapped in quotes and its quotes are doubled.
NeedsQuote(f) == \E i \in 1..Len(f) : f[i] = "\""

QuoteField(f) ==
    IF NeedsQuote(f)
    THEN <<"\"">> \o Flatten([i \in 1..Len(f) |->
                        IF f[i] = "\"" THEN <<"\"", "\"">> ELSE <<f[i]>>])
         \o <<"\"">>
    ELSE f

FormatValue(f, dtype) ==
    IF dtype = "int64" THEN StripLeadingZeros(f)
    ELSE IF IsNA(f) THEN <<>>
    ELSE IF dtype = "float64" THEN FloatRepr(f)
    ELSE QuoteField(f)

\* One record of the writer; a record that would be an empty line (one empty
\* field) is written as a pair of quotes.
WriteRow(fields) ==
    IF fields = <<<<>>>> THEN <<"\"", "\"", "\n">>
    ELSE Join(fields, ",") \o <<"\n">>

ToCsv(df) ==
    LET dtype(c) == ColumnDtype([r \in 1..Len(df.rows) |-> df.rows[r][c]])
        out(r)   == [c \in 1..Len(df.names) |-> FormatValue(df.rows[r][c], dtype(c))]
    IN WriteRow([c \in 1..Len(df.names) |-> QuoteField(df.names[c])])
       \o Flatten([r \in 1..Len(df.rows) |-> WriteRow(out(r))])

\* preprocess_csv: any exception of the two calls is re-raised as ValueError.
preprocess_csv(file_obj) ==
    IF NoColumns(file_obj) THEN [raised |-> "ValueError", text |-> <<>>]
    ELSE [raised |-> "none", text |-> ToCsv(ReadCsv(file_obj))]

(***************************************************************************)
(* SpecCsv: preprocess_csv on bounded inputs, then on its own output.      *)
(***************************************************************************)
MaxRows == 2
MaxFields == 3

FieldVals == {<<>>, <<"1">>, <<"0", "1">>, <<"x">>, <<"x", "\"">>}

Headers == {<<<<"a">>>>, <<<<"a">>, <<"b">>>>}

RowsOfLen(n) == [1..n -> FieldVals]

DataRows == UNION {RowsOfLen(n) : n \in 1..MaxFields}

Tables == UNION {[1..n -> DataRows] : n \in 0..MaxRows}

\* The bytes of a file whose lines are the given rows, written verbatim.
Serialize(rows) == Flatten([r \in 1..Len(rows) |-> Join(rows[r], ",") \o <<"\n">>])

\* The input "a,b,c\n1,2,3\n4,5\n6,7,8\n".
ScenarioInput ==
    Serialize(<< <<<<"a">>, <<"b">>, <<"c">>>>, <<<<"1">>, <<"2">>, <<"3">>>>,
                 <<<<"4">>, <<"5">>>>, <<<<"6">>, <<"7">>, <<"8">>>> >>)

\* A one-column input whose only value holds a quote character.
QuoteInput == Serialize(<< <<<<"a">>>>, <<<<"x", "\"">>>> >>)

Inputs == {Serialize(<<h>> \o t) : h \in Headers, t \in Tables} \cup {<<>>}

NotRun == [raised |-> "none", text |-> <<>>]

InitCsv ==
    /\ \/ raw = ScenarioInput
       \/ raw = QuoteInput
       \/ raw \in Inputs
    /\ cleaned = NotRun
    /\ recleaned = NotRun
    /\ cpc = "start"

Sanitize ==
    /\ cpc = "start"
    /\ cleaned' = preprocess_csv(raw)
    /\ cpc' = "once"
    /\ UNCHANGED <<raw, recleaned, dagVars>>

Resanitize ==
    /\ cpc = "once"
    /\ cleaned.raised = "none"
    /\ recleaned' = preprocess_csv(cleaned.text)
    /\ cpc' = "twice"
    /\ UNCHANGED <<raw, cleaned, dagVars>>

NextCsv == Sanitize \/ Resanitize

(***************************************************************************)
(* Module level: environment (lines 21..23), DEFAULT_ARGS, TABLES_CONFIG.  *)
(***************************************************************************)
None == "None"

\* os.getenv gives None for a variable that is not set; nothing checks it.
Getenv == {None, "value"}

\* DEFAULT_ARGS with one more retry.
DefaultArgsTwoRetries == [owner |-> "airflow", depends_on_past |-> FALSE, retries |-> 2]

DEFAULT_ARGS == [owner |-> "airflow", depends_on_past |-> FALSE, retries |-> 1]

TABLES_CONFIG == <<
    [table_name |-> "olist_closed_deals", gcs_folder_name |-> "data",
     destination_table |-> <<"project_id", ".ecommerce_data.", "olist_closed_deals">>,
     schema_fields |-> <<"mql_id", "seller_id", "sdr_id", "sr_id", "won_date",
                         "business_segment", "lead_type", "lead_behaviour_profile",
                         "has_comnpany", "has_gtin", "average_stock", "business_type",
                         "declared_product_catalog_size", "declared_monthly_revenue">>],
    [table_name |-> "olist_customers", gcs_folder_name |-> "data",
     destination_table |-> <<"project_id", ".ecommerce_data.", "olist_customers">>,
     schema_fields |-> <<"customer_id", "customer_unique_id", "customer_zip_code_prefix",
                         "customer_city", "customer_state">>],
    [table_name |-> "olist_geolocation", gcs_folder_name |-> "data",
     destination_table |-> <<"project_id", ".ecommerce_data.", "olist_geolocation">>,
     schema_fields |-> <<"geolocation_zip_code_prefix", "geolocation_lat",
                         "geolocation_lng", "geolocation_city", "geolocation_state">>],
    [table_name |-> "olist_marketing_qualified_leads", gcs_folder_name |-> "data",
     destination_table |-> <<"project_id", ".ecommerce_data.", "olist_marketing_qualified_leads">>,
     schema_fields |-> <<"mql_id", "first_contact_date", "landing_page_id", "origin">>],
    [table_name |-> "olist_order_items", gcs_folder_name |-> "data",
     destination_table |-> <<"project_id", ".ecommerce_data.", "olist_order_items">>,
     schema_fields |-> <<"order_id", "order_item_id", "product_id", "seller_id",
                         "shipping_limit_date", "price", "freight_value">>],
    [table_name |-> "olist_order_payments", gcs_folder_name |-> "data",
     destination_table |-> <<"project_id", ".ecommerce_data.", "olist_order_payments">>,
     schema_fields |-> <<"order_id", "payment_sequential", "payment_type",
                         "payment_installments", "payment_value">>],
    [table_name |-> "olist_order_reviews", gcs_folder_name |-> "data",
     destination_table |-> <<"project_id", ".ecommerce_data.", "olist_order_reviews">>,
     schema_fields |-> <<"review_id", "order_id", "review_score", "review_comment_title",
                         "review_comment_message", "review_creation_date",
                         "review_answer_timestamp">>],
    [table_name |-> "olist_orders", gcs_folder_name |-> "data",
     destination_table |-> <<"project_id", ".ecommerce_data.", "olist_orders">>,
     schema_fields |-> <<"order_id", "customer_id", "order_status",
                         "order_purchase_timestamp", "order_approved_at",
                         "order_delivered_carrier_date", "order_delivered_customer_date",
                         "order_estimated_delivery_date">>],
    [table_name |-> "olist_products", gcs_folder_name |-> "data",
     destination_table |-> <<"project_id", ".ecommerce_data.", "olist_products">>,
     schema_fields |-> <<"product_id", "product_category_name", "product_name_lenght",
                         "product_description_lenght", "product_photos_qty",
                         "product_weight_g", "product_length_cm", "product_height_cm",
                         "product_width_cm">>],
    [table_name |-> "olist_sellers", gcs_folder_name |-> "data",
     destination_table |-> <<"project_id", ".ecommerce_data.", "olist_sellers">>,
     schema_fields |-> <<"seller_id", "seller_zip_code_prefix", "seller_city",
                         "seller_state">>],
    [table_name |-> "olist_product_category_name", gcs_folder_name |-> "data",
     destination_table |-> <<"project_id", ".ecommerce_data.", "olist_product_category_name">>,
     schema_fields |-> <<"product_category_name", "product_category_name_english">>]
>>

\* The registry entries the model runs: the first NumTables of TABLES_CONFIG.
NumTables == 2

Registry == SubSeq(TABLES_CONFIG, 1, NumTables)

TableIds == 1..Len(Registry)

(***************************************************************************)
(* The DAG (lines 275..318): two tasks per table and their dependencies.   *)
(***************************************************************************)
NoTask == [op |-> None, table |-> 0]

dump_file_to_gcs(i) == [op |-> "dump_file_to_gcs", table |-> i]

load_to_bigquery(i) == [op |-> "load_to_bigquery", table |-> i]

Tasks ==
    {dump_file_to_gcs(i) : i \in TableIds} \cup {load_to_bigquery(i) : i \in TableIds}

\* op_kwargs of the Stage task, lines 295..298.
file_name(i) == <<Registry[i].table_name, ".csv">>

gcs_folder_name(i) == Registry[i].gcs_folder_name

\* A blob path that leaves the file name out: every table stages to one object.
BlobPathFolderOnly(folder, name) == <<folder, "/", "data", ".csv">>

\* bucket.blob(f"{gcs_folder_name}/{file_name}"), line 98.
BlobPath(folder, name) == <<folder, "/">> \o name

\* source_objects of the Load task, line 305.
source_object(i) == <<Registry[i].gcs_folder_name, "/", Registry[i].table_name, ".csv">>

write_disposition_append == "WRITE_APPEND"

write_disposition == "WRITE_TRUNCATE"

skip_leading_rows == 1

\* The loop of lines 285..318: previous_task >> dump >> load, per table.
RECURSIVE Wire(_, _, _)
Wire(i, previous_task, edges) ==
    IF i > Len(Registry) THEN edges
    ELSE LET chained == IF previous_task # NoTask
                        THEN edges \cup {<<previous_task, dump_file_to_gcs(i)>>}
                        ELSE edges
         IN Wire(i + 1, load_to_bigquery(i),
                 chained \cup {<<dump_file_to_gcs(i), load_to_bigquery(i)>>})

\* The same loop without the previous_task edge: one chain per table.
EdgesPerTable == {<<dump_file_to_gcs(i), load_to_bigquery(i)>> : i \in TableIds}

Edges == Wire(1, NoTask, {})

Upstream(t) == {u \in Tasks : <<u, t>> \in Edges}

(***************************************************************************)
(* The Drive folder and its files.                                         *)
(***************************************************************************)
FileNames == {file_name(i) : i \in TableIds}

TableOf(name) == CHOOSE i \in TableIds : file_name(i) = name

Variants == {1, 2}

\* A file id: the table whose file it is, and which of the sample contents.
FileIds(name) == {<<TableOf(name), k>> : k \in Variants}

NoFile == <<>>

Ones(n) == [c \in 1..n |-> <<"1">>]

\* Sample content of a source file: the table's column names, then either one
\* row of numbers, or a row with a leading zero, a short row and a long row.
Content(id) ==
    LET cols == Registry[id[1]].schema_fields
        n    == Len(cols)
        hdr  == [c \in 1..n |-> <<cols[c]>>]
    IN IF id[2] = 1
       THEN Serialize(<<hdr, Ones(n)>>)
       ELSE Serialize(<<hdr, [c \in 1..n |-> IF c = 1 THEN <<"0", "7">> ELSE <<"x">>],
                        [c \in 1..(n - 1) |-> <<"2">>], Ones(n + 1)>>)

Listings(name) ==
    LET a == <<TableOf(name), 1>>
        b == <<TableOf(name), 2>>
    IN {<<>>, <<a>>, <<b, a>>}

\* What the folder may hold: for every file name, one of its listings.
Folders == {f \in [FileNames -> UNION {Listings(n) : n \in FileNames}] :
               \A n \in FileNames : f[n] \in Listings(n)}

(***************************************************************************)
(* gdrive_to_gcs, lines 49..99.  fault names the remote call of this       *)
(* attempt that fails with a transient error, if any.                      *)
(***************************************************************************)
Faults == {"none", "secret", "list", "download", "upload"}

\* Bytes per next_chunk call (the model's stand-in for the library default).
ChunkSize == 4

Min(a, b) == IF a < b THEN a ELSE b

\* One next_chunk: appends the next chunk to fh; done when nothing is left.
next_chunk(content, fh) ==
    LET got == fh \o SubSeq(content, Len(fh) + 1, Min(Len(fh) + ChunkSize, Len(content)))
    IN [fh |-> got, done |-> Len(got) = Len(content)]

\* A loop that stops after its first chunk.
DownloadFirstChunk(content, fh) == next_chunk(content, fh).fh

\* while not done: _, done = downloader.next_chunk(), lines 87..89.
RECURSIVE Download(_, _)
Download(content, fh) ==
    LET step == next_chunk(content, fh)
    IN IF step.done THEN step.fh ELSE Download(content, step.fh)

Attempt(at, raised, files, fh, csv, blob) ==
    [at |-> at, raised |-> raised, files |-> files, fh |-> fh,
     cleaned_csv |-> csv, blob |-> blob]

AllFileIds == UNION {FileIds(n) : n \in FileNames}

\* Lines 84..89 for each file of the folder: fh after the download loop.
Downloaded == [id \in AllFileIds |-> Download(Content(id), <<>>)]

\* Lines 92..93 for each file of the folder: preprocess_csv(fh).
Preprocessed == [id \in AllFileIds |-> preprocess_csv(Downloaded[id])]

gdrive_to_gcs(name, folder, e, folderFiles, fault) ==
    IF e.PROJECT_ID = None \/ fault = "secret"
    THEN Attempt("secret", "SecretError", <<>>, <<>>, <<>>, <<>>)
    ELSE IF e.GDRIVE_FOLDER_ID = None \/ fault = "list"
    THEN Attempt("list", "HttpError", <<>>, <<>>, <<>>, <<>>)
    ELSE LET files == folderFiles[name] IN
    IF files = <<>>
    THEN Attempt("find", "FileNotFoundError", files, <<>>, <<>>, <<>>)
    ELSE IF fault = "download"
    THEN Attempt("download", "HttpError", files, <<>>, <<>>, <<>>)
    ELSE LET file_id == files[1]
             fh      == Downloaded[file_id]
             csv     == Preprocessed[file_id] IN
    IF csv.raised # "none"
    THEN Attempt("preprocess", csv.raised, files, fh, <<>>, <<>>)
    ELSE IF e.GCS_BUCKET = None \/ fault = "upload"
    THEN Attempt("upload", "UploadError", files, fh, csv.text, <<>>)
    ELSE Attempt("done", "none", files, fh, csv.text, BlobPath(folder, name))

(***************************************************************************)
(* GCSToBigQueryOperator, lines 302..312: one load job, all or nothing.    *)
(***************************************************************************)
\* A quoted field of the object, as the loader reads it.
Unquote(f) ==
    IF Len(f) >= 2 /\ f[1] = "\"" /\ f[Len(f)] = "\""
    THEN LET inner == SubSeq(f, 2, Len(f) - 1)
             RECURSIVE Undouble(_)
             Undouble(g) ==
                 IF g = <<>> THEN <<>>
                 ELSE IF Len(g) >= 2 /\ g[1] = "\"" /\ g[2] = "\""
                 THEN <<"\"">> \o Undouble(SubSeq(g, 3, Len(g)))
                 ELSE <<Head(g)>> \o Undouble(Tail(g))
         IN Undouble(inner)
    ELSE f

\* The records of a CSV object after the leading rows are skipped.
CsvRecords(data) ==
    LET lines == Split(data, "\n")
        recs  == SubSeq(lines, 1, Len(lines) - 1)
    IN [r \in 1..(Len(recs) - skip_leading_rows) |->
           LET fs == Fields(recs[r + skip_leading_rows])
           IN [c \in 1..Len(fs) |-> Unquote(fs[c])]]

\* The records of each object a Stage task can have written.
Records ==
    [data \in {Preprocessed[id].text : id \in AllFileIds} |-> CsvRecords(data)]

NoObject == [exists |-> FALSE, data |-> <<>>]

NoTable == [exists |-> FALSE, rows |-> <<>>]

Written(old, rows) ==
    IF write_disposition = "WRITE_TRUNCATE"
    THEN [exists |-> TRUE, rows |-> rows]
    ELSE [exists |-> TRUE, rows |-> old.rows \o rows]

\* The outcome of the load job: the error it ends with, and the table after.
LoadJob(i, e, objects, old, fault) ==
    IF e.GCS_BUCKET = None \/ e.PROJECT_ID = None \/ fault # "none"
    THEN [raised |-> "JobError", table |-> old]
    ELSE LET obj == objects[source_object(i)] IN
    IF ~obj.exists THEN [raised |-> "NotFound", table |-> old]
    ELSE LET rows == Records[obj.data] IN
    IF \E r \in 1..Len(rows) : Len(rows[r]) # Len(Registry[i].schema_fields)
    THEN [raised |-> "BadRecords", table |-> old]
    ELSE [raised |-> "none", table |-> Written(old, rows)]

(***************************************************************************)
(* SpecDag: runs of gdrive_to_bigquery_dag under the Airflow scheduler.    *)
(* A task starts when every upstream task has succeeded (trigger rule      *)
(* all_success, the default); a failed attempt is retried while            *)
(* try_number <= retries; a task with a failed upstream is never started.  *)
(* Runs do not overlap: a run is triggered when the one before it is over. *)
(***************************************************************************)
MaxRuns == 2

BlobPaths == {BlobPath(gcs_folder_name(i), file_name(i)) : i \in TableIds}
                 \cup {source_object(i) : i \in TableIds}

destination_table(i) == Registry[i].destination_table

DestTables == {destination_table(i) : i \in TableIds}

NoWriter == <<>>

Idle == [op |-> None, table |-> 0, run |-> 0, source |-> NoWriter, listing |-> <<>>,
         attempt |-> Attempt(None, "none", <<>>, <<>>, <<>>, <<>>)]

Finished == {"success", "failed", "upstream_failed"}

RunFinished == \A t \in Tasks : ti[t] \in Finished

\* The state of a task whose attempt has just failed.
AfterFailure(t) ==
    IF try_number[t] <= DEFAULT_ARGS.retries THEN "up_for_retry" ELSE "failed"

InitDag ==
    /\ env \in [GCS_BUCKET : Getenv, GDRIVE_FOLDER_ID : Getenv, PROJECT_ID : Getenv]
    /\ drive = [n \in FileNames |-> <<<<TableOf(n), 1>>>>]
    /\ gcs = [p \in BlobPaths |-> NoObject]
    /\ bq = [d \in DestTables |-> NoTable]
    /\ run = 0
    /\ ti = [t \in Tasks |-> "none"]
    /\ try_number = [t \in Tasks |-> 0]
    /\ last = Idle
    /\ writer = [p \in BlobPaths |-> NoWriter]
    /\ stagedFrom = [p \in BlobPaths |-> NoFile]
    /\ loadedFrom = [d \in DestTables |-> NoFile]
    /\ repeat = FALSE

\* The daily trigger: a new run, every task instance in its initial state.
\* folder is what the Drive folder holds by then: since the run before,
\* somebody may have added, replaced or removed files.
TriggerRun(folder) ==
    /\ run < MaxRuns
    /\ run = 0 \/ RunFinished
    /\ run' = run + 1
    /\ drive' = folder
    /\ ti' = [t \in Tasks |-> "none"]
    /\ try_number' = [t \in Tasks |-> 0]
    /\ repeat' = (run > 0 /\ folder = drive /\ \A t \in Tasks : ti[t] = "success")
    /\ last' = Idle
    /\ writer' = [p \in BlobPaths |-> NoWriter]
    /\ UNCHANGED <<env, gcs, bq, stagedFrom, loadedFrom, csvVars>>

\* The scheduler starts an attempt of a task whose dependencies are met.
StartTask(t) ==
    /\ run > 0
    /\ ti[t] \in {"none", "up_for_retry"}
    /\ \A u \in Upstream(t) : ti[u] = "success"
    /\ ti' = [ti EXCEPT ![t] = "running"]
    /\ try_number' = [try_number EXCEPT ![t] = @ + 1]
    /\ last' = Idle
    /\ UNCHANGED <<env, drive, gcs, bq, run, writer, stagedFrom, loadedFrom,
                   repeat, csvVars>>

\* A task one of whose upstream tasks failed is marked upstream_failed.
MarkUpstreamFailed(t) ==
    /\ run > 0
    /\ ti[t] = "none"
    /\ \E u \in Upstream(t) : ti[u] \in {"failed", "upstream_failed"}
    /\ ti' = [ti EXCEPT ![t] = "upstream_failed"]
    /\ UNCHANGED <<env, drive, gcs, bq, run, try_number, last, writer, stagedFrom,
                   loadedFrom, repeat, csvVars>>

\* An attempt of the Stage task of table i: gdrive_to_gcs runs to its end.
RunDump(i, fault) ==
    LET t == dump_file_to_gcs(i)
        a == gdrive_to_gcs(file_name(i), gcs_folder_name(i), env, drive, fault)
    IN /\ ti[t] = "running"
       /\ last' = [op |-> t.op, table |-> i, run |-> run, source |-> NoWriter,
                   listing |-> drive[file_name(i)], attempt |-> a]
       /\ IF a.raised = "none"
          THEN /\ gcs' = [gcs EXCEPT ![a.blob] =
                               [exists |-> TRUE, data |-> a.cleaned_csv]]
               /\ writer' = [writer EXCEPT ![a.blob] = <<i>>]
               /\ stagedFrom' = [stagedFrom EXCEPT ![a.blob] = a.files[1]]
               /\ ti' = [ti EXCEPT ![t] = "success"]
          ELSE /\ ti' = [ti EXCEPT ![t] = AfterFailure(t)]
               /\ UNCHANGED <<gcs, writer, stagedFrom>>
       /\ UNCHANGED <<env, drive, bq, run, try_number, loadedFrom, repeat, csvVars>>

\* An attempt of the Load task of table i: the load job runs to its end.
RunLoad(i, fault) ==
    LET t == load_to_bigquery(i)
        d == destination_table(i)
        j == LoadJob(i, env, gcs, bq[d], fault)
    IN /\ ti[t] = "running"
       /\ last' = [op |-> t.op, table |-> i, run |-> run,
                   source |-> writer[source_object(i)], listing |-> <<>>,
                   attempt |-> Attempt("load", j.raised, <<>>, <<>>, <<>>, <<>>)]
       /\ bq' = [bq EXCEPT ![d] = j.table]
       /\ IF j.raised = "none"
          THEN /\ loadedFrom' = [loadedFrom EXCEPT ![d] = stagedFrom[source_object(i)]]
               /\ ti' = [ti EXCEPT ![t] = "success"]
          ELSE /\ ti' = [ti EXCEPT ![t] = AfterFailure(t)]
               /\ UNCHANGED loadedFrom
       /\ UNCHANGED <<env, drive, gcs, run, try_number, writer, stagedFrom, repeat,
                      csvVars>>

NextDag ==
    \/ \E folder \in Folders : TriggerRun(folder)
    \/ \E t \in Tasks : StartTask(t)
    \/ \E t \in Tasks : MarkUpstreamFailed(t)
    \/ \E i \in TableIds, fault \in Faults : RunDump(i, fault)
    \/ \E i \in TableIds, fault \in {"none", "job"} : RunLoad(i, fault)

CsvIdle ==
    /\ raw = <<>>
    /\ cleaned = NotRun
    /\ recleaned = NotRun
    /\ cpc = "idle"

DagIdle ==
    /\ env = [GCS_BUCKET |-> None, GDRIVE_FOLDER_ID |-> None, PROJECT_ID |-> None]
    /\ drive = [n \in FileNames |-> <<>>]
    /\ gcs = [p \in BlobPaths |-> NoObject]
    /\ bq = [d \in DestTables |-> NoTable]
    /\ run = 0
    /\ ti = [t \in Tasks |-> "none"]
    /\ try_number = [t \in Tasks |-> 0]
    /\ last = Idle
    /\ writer = [p \in BlobPaths |-> NoWriter]
    /\ stagedFrom = [p \in BlobPaths |-> NoFile]
    /\ loadedFrom = [d \in DestTables |-> NoFile]
    /\ repeat = FALSE

InitCsvSpec == InitCsv /\ DagIdle

SpecCsv == InitCsvSpec /\ [][NextCsv]_vars

InitDagSpec == InitDag /\ CsvIdle

SpecDag == InitDagSpec /\ [][NextDag]_vars

(***************************************************************************)
(* Properties of SpecDag.                                                  *)
(***************************************************************************)
Started(t) == try_number[t] > 0

\* The place of a task in registry order: Stage then Load, table by table.
Place(t) == IF t.op = "dump_file_to_gcs" THEN 2 * t.table - 1 ELSE 2 * t.table

EnvComplete == \A k \in DOMAIN env : env[k] # None

\* C1: in a run the steps start in one linear order: the Stage step of a
\* table starts only after the Load step of the table before it in registry
\* order has succeeded, its Load step only after its own Stage step has
\* succeeded, and no two steps of the run are running at the same time.
C1_LinearOrder ==
    /\ \A i \in TableIds :
         /\ (i > 1 /\ Started(dump_file_to_gcs(i)))
                => ti[load_to_bigquery(i - 1)] = "success"
         /\ Started(load_to_bigquery(i)) => ti[dump_file_to_gcs(i)] = "success"
    /\ Cardinality({t \in Tasks : ti[t] = "running"}) <= 1

C1_Witness == ti[dump_file_to_gcs(2)] = "running"

\* What the sanitizer and the loader make of each file of the folder.
CleanTextOf == [id \in AllFileIds |-> preprocess_csv(Content(id)).text]

CleanRowsOf == [id \in AllFileIds |-> CsvRecords(CleanTextOf[id])]

C3_OtherTablesStillRun ==
    \A i \in TableIds :
        (RunFinished /\ "failed" \in {ti[dump_file_to_gcs(i)], ti[load_to_bigquery(i)]})
            => \A j \in TableIds \ {i} : ti[dump_file_to_gcs(j)] \in {"success", "failed"}

\* C3 amended: when a step fails for good, every step after it in registry
\* order (the rest of its table's chain and both steps of every later table)
\* is never started in that run and ends upstream_failed; the steps before it
\* have all succeeded.
C3_LaterTablesNeverStart ==
    \A t \in Tasks : ti[t] = "failed" =>
        \A u \in Tasks :
            /\ Place(u) > Place(t) =>
                 /\ ~Started(u)
                 /\ ti[u] \in {"none", "upstream_failed"}
                 /\ RunFinished => ti[u] = "upstream_failed"
            /\ Place(u) < Place(t) => ti[u] = "success"

C3_Witness ==
    /\ RunFinished
    /\ ti[load_to_bigquery(1)] = "failed"
    /\ ti[dump_file_to_gcs(2)] = "upstream_failed"

\* C4: in a run that follows a fully successful run on the same content of the
\* folder, no step changes the content of any destination table: the table is
\* replaced by the same rows, none duplicated, none lost.
C4_RerunKeepsContent == [][(run > 0 /\ repeat) => bq' = bq]_vars

C4_Witness ==
    /\ repeat
    /\ \A t \in Tasks : ti[t] = "success"
    /\ \A d \in DestTables : bq[d].exists /\ bq[d].rows # <<>>

\* C7: an attempt of gdrive_to_gcs that got the folder listing raises
\* FileNotFoundError exactly when the listing is empty; with exactly one match
\* the bytes handed to preprocess_csv are that file's whole content.
C7_FetchWholeFileOrNotFound ==
    last.op = "dump_file_to_gcs" =>
        LET a     == last.attempt
            files == last.listing
        IN /\ a.at \notin {"secret", "list"}
                => (a.raised = "FileNotFoundError" <=> files = <<>>)
           /\ (Len(files) = 1 /\ a.at \in {"preprocess", "upload", "done"})
                => a.fh = Content(files[1])

C7_Witness ==
    /\ last.op = "dump_file_to_gcs"
    /\ Len(last.listing) = 1
    /\ last.attempt.at = "done"
    /\ Len(last.attempt.fh) > ChunkSize

\* C8: in one run a step is attempted at most twice; it is failed for good
\* only after its second attempt, a first failed attempt leaving it up for
\* retry; and once the Stage step of a table has failed for good the Load step
\* of that table is never started in that run.
C8_OneRetry ==
    \A t \in Tasks :
        /\ try_number[t] <= 2
        /\ ti[t] = "up_for_retry" => try_number[t] = 1
        /\ ti[t] = "failed" => try_number[t] = 2
        /\ (t.op = "dump_file_to_gcs" /\ ti[t] = "failed")
              => /\ ~Started(load_to_bigquery(t.table))
                 /\ ti[load_to_bigquery(t.table)] \in {"none", "upstream_failed"}

C8_Witness ==
    /\ EnvComplete
    /\ ti[dump_file_to_gcs(1)] = "failed"
    /\ try_number[dump_file_to_gcs(1)] = 2
    /\ ti[load_to_bigquery(1)] = "upstream_failed"

\* C9 as stated: when a required environment value is absent the run fails
\* before the Stage step of any table starts, and no staged object or
\* destination table is touched.
C9_FailsBeforeAnyStage ==
    ~EnvComplete =>
        /\ \A t \in Tasks : ~Started(t)
        /\ \A p \in BlobPaths : gcs[p] = NoObject
        /\ \A d \in DestTables : bq[d] = NoTable

ExpectedClean(text) ==
    LET lines == Lines(text)
        width == Len(Fields(lines[1]))
        kept  == SelectSeq(lines, LAMBDA l : Len(Fields(l)) = width)
    IN Flatten([k \in 1..Len(kept) |-> kept[k] \o <<"\n">>])

\* C5 as stated: for an input with a header row, preprocess_csv returns,
\* without raising, the header followed by exactly the data rows whose field
\* count equals the header's, in their order, every value verbatim.
C5_KeepsWellFormedRowsVerbatim ==
    (cpc # "start" /\ Lines(raw) # <<>>)
        => cleaned = [raised |-> "none", text |-> ExpectedClean(raw)]

\* C6 as stated: preprocess_csv applied to its own output gives that output
\* again, byte for byte.
C6_Idempotent ==
    cpc = "twice" => recleaned = cleaned

====
